---- MODULE Spec2Model ----
(***************************************************************************)
(* Amazon category ranking monitor: the acquisition -> resolution ->       *)
(* persist -> notify pipeline of app.py (fetch_all_rankings) and of its    *)
(* scheduled revision main.py (main).                                      *)
(*                                                                         *)
(* Python values are represented as follows.                               *)
(*   - a category id is a record [t, v]: t = "int" for a JSON number,      *)
(*     t = "str" for a JSON string, v the number it denotes; str() is the  *)
(*     operator Str.                                                       *)
(*   - an optional integer (None | int) is a sequence: <<>> or <<n>>.      *)
(*   - a title is a string; Null stands for JSON null / Python None and    *)
(*     Absent for a key that is missing from the provider's JSON.          *)
(*   - a date is the number of the calendar day.                           *)
(***************************************************************************)
EXTENDS Integers, Sequences, FiniteSets, TLC

\* ------------------------------------------------------------- bounds
\* entries of the longest provider category list
MaxCatLen == 6
\* calendar day of the run
Today == 2

\* ---------------------------------------------------- program constants
\* categories[:5]
NumCandidates == 5

Null == "<null>"
Absent == "<absent>"
UnknownProduct == "Unknown Product"

IntId(n) == [t |-> "int", v |-> n]
StrId(n) == [t |-> "str", v |-> n]

\* str(cat_id) with the conversion left out
StrNoConversion(x) == x
\* str(cat_id): a number becomes its decimal string, a string stays
Str(x) == [t |-> "str", v |-> x.v]

Reverse(s) == [i \in 1..Len(s) |-> s[Len(s) + 1 - i]]
Min(a, b) == IF a <= b THEN a ELSE b

\* `if x:` on an optional integer: None and 0 are falsy
Truthy(opt) == opt # <<>> /\ opt[1] # 0

\* ------------------------------------------------- provider responses

Iota(n) == [i \in 1..n |-> IntId(i)]

TreeItem(c, n) == [catId |-> c, name |-> n]
RankEntry(k, r) == [key |-> StrId(k), rank |-> r]

Payload(title, categories, categoryTree, salesRanks) ==
    [title |-> title, categories |-> categories, categoryTree |-> categoryTree,
     salesRanks |-> salesRanks]

\* the product objects the provider may send. categories is general to
\* specific, numbers or strings; stats.salesRank is a JSON object, so its keys
\* are strings, in document order
ProductPayloads ==
    { Payload("T1", <<>>, <<>>, <<>>),
      Payload("T1", <<>>, <<>>, <<RankEntry(1, 7)>>),
      Payload("T1", <<>>, <<>>, <<RankEntry(1, -1)>>),
      Payload("T1", <<IntId(1)>>, <<>>, <<>>),
      Payload("T1", <<IntId(1)>>, <<TreeItem(IntId(1), "N1")>>, <<RankEntry(1, 7)>>),
      Payload("T1", <<StrId(1), IntId(2)>>, <<>>, <<RankEntry(2, 7), RankEntry(1, 0)>>),
      Payload("T1", <<IntId(1), IntId(1)>>, <<>>, <<>>),
      Payload("T1", Iota(MaxCatLen), <<>>, <<>>),
      Payload(Absent, <<IntId(1)>>, <<>>, <<>>),
      Payload(Null, <<>>, <<>>, <<>>),
      Payload(Null, <<IntId(1)>>, <<>>, <<>>) }

NoPayload == [title |-> Absent, categories |-> <<>>, categoryTree |-> <<>>,
              salesRanks |-> <<>>]

\* kind: "ok" a product record; "notfound" an empty or missing product list;
\* "http" a non-200 status; "error" an error object; "timeout"
ProductResponses ==
    { [kind |-> "ok", product |-> p] : p \in ProductPayloads }
    \cup { [kind |-> k, product |-> NoPayload] :
              k \in {"notfound", "http", "error", "timeout"} }

\* the answers to the n bestsellers calls of one resolution: a body with one
\* asinList for all of them, with the calls in failed answered by an exception
\* (timeout, bad JSON)
BestsellerAnswers(n) ==
    { [i \in 1..n |-> IF i \in failed THEN [kind |-> "error", asinList |-> <<>>]
                      ELSE [kind |-> "ok", asinList |-> l]] :
        l \in {<<"A1">>, <<"A2", "A1">>}, failed \in {{}, {1}, {n}, 1..n} }

\* the outcomes of the category-name lookups of one resolution: all answered
\* (TRUE) or all failed (FALSE); failures are drawn for the short lists only
NameOutcomes(categories) == IF Len(categories) <= 1 THEN BOOLEAN ELSE {TRUE}

\* -------------------------------------------------------- Keepa API
\* an entry appended to _api_errors on every call
ApiErrorAlways(asin, resp) == <<[asin |-> asin, kind |-> resp.kind]>>
\* the entry appended to _api_errors, <<>> when the call succeeds
ApiError(asin, resp) ==
    IF resp.kind = "ok" THEN <<>> ELSE <<[asin |-> asin, kind |-> resp.kind]>>

\* get_product_info that answers an empty product list with a default record
GetProductInfoNoEmptyCheck(asin, resp) ==
    IF resp.kind \in {"http", "error", "timeout"}
    THEN [isNone |-> TRUE, asin |-> asin, title |-> Null, categories |-> <<>>,
          categoryTree |-> <<>>, salesRanks |-> <<>>]
    ELSE [isNone |-> FALSE, asin |-> asin,
          title |-> IF resp.product.title = Absent THEN UnknownProduct
                    ELSE resp.product.title,
          categories |-> resp.product.categories,
          categoryTree |-> resp.product.categoryTree,
          salesRanks |-> resp.product.salesRanks]

\* get_product_info: None unless the provider sent a product record
GetProductInfo(asin, resp) ==
    IF resp.kind # "ok"
    THEN [isNone |-> TRUE, asin |-> asin, title |-> Null, categories |-> <<>>,
          categoryTree |-> <<>>, salesRanks |-> <<>>]
    ELSE [isNone |-> FALSE, asin |-> asin,
          title |-> IF resp.product.title = Absent THEN UnknownProduct
                    ELSE resp.product.title,
          categories |-> resp.product.categories,
          categoryTree |-> resp.product.categoryTree,
          salesRanks |-> resp.product.salesRanks]

Decimal(n) == <<"1", "2", "3", "4", "5", "6", "7", "8", "9">>[n]

\* get_category_name: the provider's name, or the placeholder when the lookup
\* fails or the provider omits the id
GetCategoryName(nameOk, cat_id) ==
    IF nameOk THEN "name" \o Decimal(cat_id.v) ELSE "category" \o Decimal(cat_id.v)

\* asin_list.index(target_asin) + 1, None when absent or on any exception
GetBestsellerRanking(resp, target_asin) ==
    IF resp.kind # "ok" THEN <<>>
    ELSE LET hits == {i \in 1..Len(resp.asinList) : resp.asinList[i] = target_asin}
         IN  IF hits = {} THEN <<>>
             ELSE <<CHOOSE i \in hits : \A j \in hits : i <= j>>

\* the name of the first categoryTree item whose catId prints as cat_id
TreeName(category_tree, cat_id) ==
    LET hits == {i \in 1..Len(category_tree) :
                    Str(category_tree[i].catId) = cat_id}
    IN  IF hits = {} THEN <<>>
        ELSE <<category_tree[CHOOSE i \in hits : \A j \in hits : i <= j].name>>

CatName(category_tree, nameOk, cat_id) ==
    IF TreeName(category_tree, cat_id) # <<>>
    THEN TreeName(category_tree, cat_id)[1]
    ELSE GetCategoryName(nameOk, cat_id)

\* reversed(categories[:5])
Candidates(categories) ==
    Reverse(SubSeq(categories, 1, Min(NumCandidates, Len(categories))))

Observation(asin, title, cat_id, cat_name, rank, source) ==
    [date |-> Today, asin |-> asin, title |-> title, category_id |-> cat_id,
     category_name |-> cat_name, rank |-> rank, source |-> source]

\* the dedup test of the salesRank loop, left out
HasCategoryNever(results, cat_id) == FALSE
\* any(r['category_id'] == cat_id for r in results)
HasCategory(results, cat_id) ==
    \E i \in 1..Len(results) : results[i].category_id = cat_id

\* method 1 with the lookup's exception caught around the whole loop: the
\* first failed lookup ends the loop
BestsellerResultsStopAtFailure(info, bs, nameOk) ==
    LET cands == Candidates(info.categories)
        acc[i \in 0..Len(cands)] ==
            IF i = 0 THEN <<>>
            ELSE LET cat_id == Str(cands[i])
                     rank == GetBestsellerRanking(bs[i], info.asin)
                 IN  IF \E j \in 1..i : bs[j].kind = "error" THEN acc[i - 1]
                     ELSE IF Truthy(rank)
                     THEN Append(acc[i - 1],
                                 Observation(info.asin, info.title, cat_id,
                                             CatName(info.categoryTree, nameOk, cat_id),
                                             rank[1], "bestsellers"))
                     ELSE acc[i - 1]
    IN  acc[Len(cands)]

\* method 1: the bestsellers list of every candidate; bs[i] answers the i-th call
BestsellerResults(info, bs, nameOk) ==
    LET cands == Candidates(info.categories)
        acc[i \in 0..Len(cands)] ==
            IF i = 0 THEN <<>>
            ELSE LET cat_id == Str(cands[i])
                     rank == GetBestsellerRanking(bs[i], info.asin)
                 IN  IF Truthy(rank)
                     THEN Append(acc[i - 1],
                                 Observation(info.asin, info.title, cat_id,
                                             CatName(info.categoryTree, nameOk, cat_id),
                                             rank[1], "bestsellers"))
                     ELSE acc[i - 1]
    IN  acc[Len(cands)]

\* method 2: the salesRank entries whose category method 1 did not resolve
SalesRankResults(info, results1, nameOk) ==
    LET sr == info.salesRanks
        acc[i \in 0..Len(sr)] ==
            IF i = 0 THEN results1
            ELSE LET cat_id == Str(sr[i].key)
                 IN  IF HasCategory(acc[i - 1], cat_id) THEN acc[i - 1]
                     ELSE IF sr[i].rank # 0 /\ sr[i].rank > 0
                          THEN Append(acc[i - 1],
                                      Observation(info.asin, info.title, cat_id,
                                                  CatName(info.categoryTree, nameOk, cat_id),
                                                  sr[i].rank, "salesRank"))
                          ELSE acc[i - 1]
    IN  acc[Len(sr)]

\* the category ids handed to get_bestseller_ranking, in call order
RankLookups(info) ==
    LET cands == Candidates(info.categories)
    IN  [i \in 1..Len(cands) |-> Str(cands[i])]

\* the category ids handed to get_category_name, in call order
NameLookups(info, results1) ==
    LET cands == Candidates(info.categories)
        sr == info.salesRanks
        m1 == SelectSeq([i \in 1..Len(cands) |-> Str(cands[i])],
                        LAMBDA c : TreeName(info.categoryTree, c) = <<>>)
        m2 == SelectSeq([i \in 1..Len(sr) |-> Str(sr[i].key)],
                        LAMBDA c : /\ ~HasCategory(results1, c)
                                   /\ TreeName(info.categoryTree, c) = <<>>)
    IN  m1 \o m2

\* fetch_ranking_for_product: isNone stands for the None it returns;
\* rankLookups and nameLookups are the provider calls it issued
FetchRankingForProduct(asin, resp, bs, nameOk) ==
    LET info == GetProductInfo(asin, resp)
        results1 == BestsellerResults(info, bs, nameOk)
    IN  IF info.isNone
        THEN [isNone |-> TRUE, title |-> Null, asin |-> asin, results |-> <<>>,
              rankLookups |-> <<>>, nameLookups |-> <<>>]
        ELSE [isNone |-> FALSE, title |-> info.title, asin |-> asin,
              results |-> SalesRankResults(info, results1, nameOk),
              rankLookups |-> RankLookups(info),
              nameLookups |-> NameLookups(info, results1)]

\* --------------------------------------------------------- the stores
\* the row insert() writes: the observation without its 'source' key
StoredRow(r) ==
    [date |-> r.date, asin |-> r.asin, title |-> r.title,
     category_id |-> r.category_id, category_name |-> r.category_name,
     rank |-> r.rank]

StoredRows(results) == [i \in 1..Len(results) |-> StoredRow(results[i])]

\* save_ranking_data that writes the batch over the table
SaveRankingDataOverwrite(table, results, insertOk) ==
    IF results = <<>> \/ ~insertOk THEN table ELSE StoredRows(results)

\* save_ranking_data: one insert of the whole batch; a failed insert is
\* reported and swallowed
SaveRankingData(table, results, insertOk) ==
    IF results = <<>> \/ ~insertOk THEN table ELSE table \o StoredRows(results)

\* load_data: the table, newest first, or an empty frame on error
LoadData(table, loadOk) == IF loadOk THEN Reverse(table) ELSE <<>>

\* update_product_title: a failed update is swallowed
UpdateProductTitle(store, asin, title, updateOk) ==
    IF ~updateOk THEN store
    ELSE [i \in 1..Len(store) |->
            IF store[i].asin = asin THEN [store[i] EXCEPT !.title = title]
            ELSE store[i]]

\* ------------------------------------------------------------ Slack
Emoji(rank) ==
    IF rank <= 10 THEN "gold" ELSE IF rank <= 50 THEN "silver"
    ELSE IF rank <= 100 THEN "bronze" ELSE "pin"

\* the asins of all_results, each once, in first-seen order (by_product keys)
ByProductKeys(all_results) ==
    LET acc[i \in 0..Len(all_results)] ==
            IF i = 0 THEN <<>>
            ELSE IF \E j \in 1..Len(acc[i - 1]) : acc[i - 1][j] = all_results[i].asin
                 THEN acc[i - 1]
                 ELSE Append(acc[i - 1], all_results[i].asin)
    IN  acc[Len(all_results)]

Rankings(all_results, asin) == SelectSeq(all_results, LAMBDA r : r.asin = asin)

\* one rendered line: "{emoji} {cat_name}: *{rank}位*{source_tag}"
Line(r, withSourceTag) ==
    [emoji |-> Emoji(r.rank), cat_name |-> r.category_name, rank |-> r.rank,
     source_tag |-> IF withSourceTag /\ r.source = "bestsellers" THEN "[BS]" ELSE ""]

\* the section blocks of the message, one per product
Blocks(all_results, withSourceTag) ==
    LET keys == ByProductKeys(all_results)
    IN  [k \in 1..Len(keys) |->
            LET rs == Rankings(all_results, keys[k])
            IN  [asin |-> keys[k], title |-> rs[1].title,
                 lines |-> [i \in 1..Len(rs) |-> Line(rs[i], withSourceTag)]]]

\* len(data['title']) raises TypeError on a None title
RenderRaises(all_results) ==
    \E i \in 1..Len(all_results) : all_results[i].title = Null

\* no_response: the webhook accepts the connection and never answers
PostOutcomes == {"ok", "http_error", "connection_error", "no_response"}

\* requests.post outside any try block
PostRaisesUncaught(outcome) == outcome = "connection_error"
\* try: requests.post(...) except: pass
PostRaises(outcome) == FALSE

\* ------------------------------------------------------ the pipeline
VARIABLES
    rev,            \* "app": app.py fetch_all_rankings; "main": main.py main
    apiKey,         \* KEEPA_API_KEY is set
    slackUrl,       \* SLACK_WEBHOOK_URL is set
    productStore,   \* the products table (app) or products.json (main)
    history,        \* the ranking_data table
    pc,             \* position of the run
    products,       \* the list load_products returned
    df,             \* the frame load_data returned
    idx,            \* index of the product the loop is at
    all_results,
    success_count,
    fail_count,
    api_errors,     \* _api_errors
    log_messages,   \* _log_messages
    resolveLog,     \* the fetch_ranking_for_product calls that returned, with
                    \* the provider's answers and what each returned
    inserts,        \* the batches handed to ranking_data insert()
    notifyLog,      \* the send_slack_notification calls made, with their arguments
    posted,         \* the blocks the webhook accepted
    returned        \* the value the run returned

vars == <<rev, apiKey, slackUrl, productStore, history, pc, products, df, idx,
          all_results, success_count, fail_count, api_errors, log_messages,
          resolveLog, inserts, notifyLog, posted, returned>>

Product(asin) == [asin |-> asin, title |-> ""]

ProductLists == { <<>>, <<Product("A1")>>, <<Product("A1"), Product("A2")>> }

HistoryRow(day, asin, cat, rank) ==
    [date |-> day, asin |-> asin, title |-> "T1", category_id |-> StrId(cat),
     category_name |-> "N1", rank |-> rank]

Histories == { <<>>, <<HistoryRow(Today - 1, "A1", 1, 2)>> }

Init ==
    /\ rev \in {"app", "main"}
    /\ apiKey \in BOOLEAN
    /\ slackUrl \in BOOLEAN
    /\ productStore \in ProductLists
    /\ history \in Histories
    /\ pc = "start"
    /\ products = <<>>
    /\ df = <<>>
    /\ idx = 1
    /\ all_results = <<>>
    /\ success_count = 0
    /\ fail_count = 0
    /\ api_errors = <<>>
    /\ log_messages = <<>>
    /\ resolveLog = <<>>
    /\ inserts = <<>>
    /\ notifyLog = <<>>
    /\ posted = <<>>
    /\ returned = <<>>

\* the early returns with only the product list tested
RunIsIdleKeyUnchecked(key, prods) == prods = <<>>
\* `if not api_key: return` / `if not products: return`
RunIsIdle(key, prods) == ~key \/ prods = <<>>

\* fetch_all_rankings returns all_results; main returns nothing (None, here <<>>)
ReturnValue(r, results) == IF r = "app" THEN results ELSE <<>>

\* the requests call of this kind is given a timeout= argument: app.py does so
\* for its three GETs and not for the webhook post, main.py for none
HasTimeout(r, call) == r = "app" /\ call \in {"product", "category", "bestsellers"}

\* add_log: app.py appends to _log_messages, main.py only prints
Msg(kind, asin) == [kind |-> kind, asin |-> asin]
AddLog(r, log, msgs) == IF r = "app" THEN log \o msgs ELSE log

\* the error details logged after the loop: a header and the first three errors
ErrorDetails(errors) ==
    IF errors = <<>> THEN <<>>
    ELSE <<Msg("error_header", "")>>
         \o [i \in 1..Min(3, Len(errors)) |-> Msg("error", errors[i].asin)]

\* clear the buffers, load the configuration and the products, return at once
\* when there is nothing to do, else load the history frame and enter the loop
Start ==
    /\ pc = "start"
    /\ \E loadOk \in BOOLEAN, dataOk \in BOOLEAN :
         LET loaded == IF loadOk THEN productStore ELSE <<>>
         IN  /\ products' = loaded
             /\ api_errors' = <<>>
             /\ IF RunIsIdle(apiKey, loaded)
                THEN /\ pc' = "done"
                     /\ df' = <<>>
                     /\ log_messages' =
                           AddLog(rev, <<>>,
                                  <<Msg("start", ""),
                                    Msg(IF ~apiKey THEN "no_api_key" ELSE "no_products", "")>>)
                ELSE /\ pc' = "loop"
                     /\ df' = IF rev = "app" THEN LoadData(history, dataOk) ELSE <<>>
                     /\ log_messages' =
                           AddLog(rev, <<>>, <<Msg("start", ""), Msg("processing", "")>>)
    /\ returned' = <<>>
    /\ UNCHANGED <<rev, apiKey, slackUrl, productStore, history, idx, all_results,
                   success_count, fail_count, resolveLog, inserts, notifyLog, posted>>

LogEntry(resp, bs, result) ==
    [asin |-> result.asin, resp |-> resp, bs |-> bs, isNone |-> result.isNone,
     title |-> result.title, results |-> result.results,
     rankLookups |-> result.rankLookups, nameLookups |-> result.nameLookups]

\* a call of the resolution never returns: the endpoint does not answer and
\* the call has no timeout. silent: the failed lookups of this resolution are
\* endpoints that do not answer; a product response of kind "timeout" is one
ResolveBlocks(r, resp, bs, nameOk, silent, result) ==
    \/ resp.kind = "timeout" /\ ~HasTimeout(r, "product")
    \/ /\ resp.kind = "ok"
       /\ silent
       /\ \/ /\ \E i \in DOMAIN bs : bs[i].kind = "error"
             /\ ~HasTimeout(r, "bestsellers")
          \/ /\ ~nameOk
             /\ result.nameLookups # <<>>
             /\ ~HasTimeout(r, "category")

\* the call fetch_ranking_for_product(api_key, asin) of one iteration, with
\* the `if not asin: continue` before it
Resolve ==
    /\ pc = "loop"
    /\ idx <= Len(products)
    /\ LET asin == products[idx].asin
       IN  IF asin = ""
           THEN /\ idx' = idx + 1
                /\ UNCHANGED <<pc, api_errors, resolveLog>>
           ELSE /\ idx' = idx
                /\ \E resp \in ProductResponses, silent \in BOOLEAN :
                   \E nameOk \in NameOutcomes(resp.product.categories),
                      bs \in BestsellerAnswers(Len(Candidates(resp.product.categories))) :
                     LET result == FetchRankingForProduct(asin, resp, bs, nameOk)
                     IN  IF ResolveBlocks(rev, resp, bs, nameOk, silent, result)
                         THEN /\ pc' = "blocked"
                              /\ UNCHANGED <<api_errors, resolveLog>>
                         ELSE /\ pc' = "resolved"
                              /\ resolveLog' = Append(resolveLog, LogEntry(resp, bs, result))
                              /\ api_errors' =
                                    IF rev = "app"
                                    THEN api_errors \o ApiError(asin, resp)
                                    ELSE api_errors
    /\ UNCHANGED <<rev, apiKey, slackUrl, productStore, history, products, df,
                   all_results, success_count, fail_count, log_messages, inserts,
                   notifyLog, posted, returned>>

\* app.py, the rest of the iteration once the call has returned
ProcessProductApp(result, updateOk) ==
    IF ~result.isNone /\ result.results # <<>>
    THEN IF result.title = Null
         THEN \* result['title'][:25] raises TypeError, nothing catches it
              /\ pc' = "crashed"
              /\ UNCHANGED <<all_results, productStore, success_count, fail_count,
                             idx, products, log_messages>>
         ELSE /\ log_messages' = AddLog(rev, log_messages, <<Msg("ok", result.asin)>>)
              /\ all_results' = all_results \o result.results
              /\ productStore' =
                    UpdateProductTitle(productStore, result.asin, result.title, updateOk)
              /\ success_count' = success_count + 1
              /\ idx' = idx + 1
              /\ pc' = "loop"
              /\ UNCHANGED <<fail_count, products>>
    ELSE /\ log_messages' = AddLog(rev, log_messages, <<Msg("failed", result.asin)>>)
         /\ fail_count' = fail_count + 1
         /\ idx' = idx + 1
         /\ pc' = "loop"
         /\ UNCHANGED <<all_results, productStore, success_count, products>>

\* main.py, the rest of the iteration once the call has returned
ProcessProductMain(result) ==
    IF ~result.isNone
    THEN /\ all_results' = all_results \o result.results
         /\ products' = [products EXCEPT ![idx].title = result.title]
         /\ IF result.title = Null
            THEN \* result['title'][:40] raises TypeError, nothing catches it
                 pc' = "crashed" /\ idx' = idx
            ELSE pc' = "loop" /\ idx' = idx + 1
         /\ UNCHANGED <<productStore, success_count, fail_count, log_messages>>
    ELSE /\ idx' = idx + 1
         /\ pc' = "loop"
         /\ UNCHANGED <<all_results, products, productStore, success_count,
                        fail_count, log_messages>>

ProcessProduct ==
    /\ pc = "resolved"
    /\ LET result == resolveLog[Len(resolveLog)]
       IN  IF rev = "app"
           THEN \E updateOk \in BOOLEAN : ProcessProductApp(result, updateOk)
           ELSE ProcessProductMain(result)
    /\ UNCHANGED <<rev, apiKey, slackUrl, history, df, api_errors, resolveLog, inserts,
                   notifyLog, posted, returned>>

\* `if all_results:` with the test left out
ShouldPersistAlways(results) == TRUE
\* `if all_results:` before persisting and notifying
ShouldPersist(results) == results # <<>>

\* the loop is over: app.py logs the error details, main.py writes the product
\* list back; both go on to persist and notify only when something was
\* accumulated
LoopExit ==
    /\ pc = "loop"
    /\ idx > Len(products)
    /\ productStore' = IF rev = "main" THEN products ELSE productStore
    /\ IF ShouldPersist(all_results)
       THEN /\ pc' = (IF rev = "app" THEN "save" ELSE "notify")
            /\ returned' = returned
            /\ log_messages' = AddLog(rev, log_messages, ErrorDetails(api_errors))
       ELSE /\ pc' = "done"
            /\ returned' = ReturnValue(rev, all_results)
            /\ log_messages' =
                  AddLog(rev, log_messages,
                         ErrorDetails(api_errors) \o <<Msg("summary", "")>>)
    /\ UNCHANGED <<rev, apiKey, slackUrl, history, products, df, idx, all_results,
                   success_count, fail_count, api_errors, resolveLog, inserts,
                   notifyLog, posted>>

\* app.py: save_ranking_data(all_results)
Save ==
    /\ pc = "save"
    /\ \E insertOk \in BOOLEAN :
         history' = SaveRankingData(history, all_results, insertOk)
    /\ inserts' = IF all_results = <<>> THEN inserts
                  ELSE Append(inserts, StoredRows(all_results))
    /\ pc' = "notify"
    /\ UNCHANGED <<rev, apiKey, slackUrl, productStore, products, df, idx, all_results,
                   success_count, fail_count, api_errors, log_messages, resolveLog,
                   notifyLog, posted, returned>>

\* send_slack_notification, then the summary line and the return of the run
Notify ==
    /\ pc = "notify"
    /\ notifyLog' = Append(notifyLog, [all_results |-> all_results, df_history |-> df])
    /\ IF ~slackUrl \/ all_results = <<>>
       THEN /\ pc' = "done" /\ posted' = posted
            /\ returned' = ReturnValue(rev, all_results)
       ELSE IF RenderRaises(all_results)
       THEN pc' = "crashed" /\ posted' = posted /\ returned' = returned
       ELSE \E outcome \in PostOutcomes :
              IF outcome = "no_response" /\ ~HasTimeout(rev, "post")
              THEN pc' = "blocked" /\ posted' = posted /\ returned' = returned
              ELSE IF PostRaises(outcome)
              THEN pc' = "crashed" /\ posted' = posted /\ returned' = returned
              ELSE /\ pc' = "done"
                   /\ posted' = IF outcome = "ok"
                                THEN Blocks(all_results, rev = "main") ELSE posted
                   /\ returned' = ReturnValue(rev, all_results)
    /\ log_messages' = IF pc' = "done"
                       THEN AddLog(rev, log_messages, <<Msg("summary", "")>>)
                       ELSE log_messages
    /\ UNCHANGED <<rev, apiKey, slackUrl, productStore, history, products, df, idx,
                   all_results, success_count, fail_count, api_errors, resolveLog,
                   inserts>>

Next == Start \/ Resolve \/ ProcessProduct \/ LoopExit \/ Save \/ Notify

Spec == Init /\ [][Next]_vars

TypeOK ==
    /\ pc \in {"start", "loop", "resolved", "save", "notify", "done", "crashed",
               "blocked"}
    /\ idx \in 1..(Len(products) + 1)
    /\ success_count \in Nat /\ fail_count \in Nat

\* ============================================================ claims
LogIndices == 1..Len(resolveLog)
SameCategory(a, b) == a.category_id.v = b.category_id.v

\* C1: the observation list of one fetch_ranking_for_product call never holds
\* a 'bestsellers' and a 'salesRank' observation of the same category,
\* whether the provider spells the category id as a number or as a string.
C1_NoBothSourcesForOneCategory ==
    \A n \in LogIndices :
        LET rs == resolveLog[n].results
        IN  \A i, j \in 1..Len(rs) :
                (rs[i].source = "bestsellers" /\ rs[j].source = "salesRank")
                    => ~SameCategory(rs[i], rs[j])

\* a resolution whose salesRank map has a positive rank for a category that
\* the bestsellers list resolved, the id being a number in categories
C1_Witness ==
    \E n \in LogIndices :
        LET e == resolveLog[n]
        IN  /\ e.resp.kind = "ok"
            /\ \E i \in 1..Len(e.results), k \in 1..Len(e.resp.product.salesRanks),
                  c \in 1..Len(e.resp.product.categories) :
                 /\ e.results[i].source = "bestsellers"
                 /\ e.resp.product.salesRanks[k].key.v = e.results[i].category_id.v
                 /\ e.resp.product.salesRanks[k].rank > 0
                 /\ e.resp.product.categories[c] = IntId(e.results[i].category_id.v)

\* the last min(5, length) entries of the list, most specific first
LastFiveReversed(categories) ==
    Reverse(SubSeq(categories,
                   Len(categories) - Min(NumCandidates, Len(categories)) + 1,
                   Len(categories)))

\* C2: the categories a resolution looks up are the last min(5, length)
\* entries of the provider's category list, most specific first.
C2_CandidatesAreTheTail ==
    \A n \in LogIndices :
        LET e == resolveLog[n]
            want == LastFiveReversed(e.resp.product.categories)
        IN  e.resp.kind = "ok" =>
                e.rankLookups = [i \in 1..Len(want) |-> Str(want[i])]

FailedResolutions == {n \in LogIndices : resolveLog[n].isNone}

\* C3: a finished run of app.py over N products, M of whose resolutions
\* returned a failure, counts N - M succeeded and M failed.
C3_CountsMatchFailures ==
    (rev = "app" /\ pc = "done" /\ Len(resolveLog) = Len(products))
        => /\ fail_count = Cardinality(FailedResolutions)
           /\ success_count = Len(products) - Cardinality(FailedResolutions)
           /\ success_count + fail_count = Len(products)

\* the rows of the frame for the observation's product and category, dated
\* the day before the run
PriorDayRows(frame, obs) ==
    SelectSeq(frame, LAMBDA h : /\ h.asin = obs.asin
                                /\ h.category_id = obs.category_id
                                /\ h.date = obs.date - 1)

NoAnnotation == [kind |-> "none", by |-> 0]

\* improved / dropped / unchanged by previousRank - currentRank
ExpectedAnnotation(frame, obs) ==
    LET prior == PriorDayRows(frame, obs)
        delta == prior[1].rank - obs.rank
    IN  IF prior = <<>> THEN NoAnnotation
        ELSE IF delta > 0 THEN [kind |-> "improved", by |-> delta]
        ELSE IF delta < 0 THEN [kind |-> "dropped", by |-> -delta]
        ELSE [kind |-> "unchanged", by |-> 0]

\* what a rendered line says about the change of rank
LineAnnotation(line) ==
    IF "annotation" \in DOMAIN line THEN line.annotation ELSE NoAnnotation

\* C4: every line of the delivered digest carries the annotation that the
\* prior-day observation of the history handed to the notifier calls for,
\* and none when there is no such observation.
C4_LinesCarryDelta ==
    (pc = "done" /\ posted # <<>>) =>
        LET call == notifyLog[Len(notifyLog)]
        IN  \A b \in 1..Len(posted) :
                LET rs == Rankings(call.all_results, posted[b].asin)
                IN  \A i \in 1..Len(rs) :
                        LineAnnotation(posted[b].lines[i])
                            = ExpectedAnnotation(call.df_history, rs[i])

\* C5: the run never dies, and once the loop is over every tracked product
\* has been resolved exactly once, in registration order.
C5_EveryProductResolved ==
    /\ pc # "crashed"
    /\ pc \in {"save", "notify", "done"} /\ apiKey /\ products # <<>>
          => [n \in LogIndices |-> resolveLog[n].asin]
                = [n \in 1..Len(products) |-> products[n].asin]

\* no credential, or an empty product list loaded
Idle == ~apiKey \/ (pc # "start" /\ products = <<>>)

\* C6: with no credential or no tracked product the run returns an empty
\* report at once: no provider call, no append to the history, no product
\* modified, no notification.
C6_IdleRunDoesNothing ==
    /\ [](Idle => /\ pc \in {"start", "done"}
                  /\ resolveLog = <<>>
                  /\ notifyLog = <<>>
                  /\ posted = <<>>
                  /\ all_results = <<>>
                  /\ returned = <<>>)
    /\ [][Idle' => (history' = history /\ productStore' = productStore)]_vars

\* a run that ended for want of a credential although products are tracked
C6_Witness == pc = "done" /\ ~apiKey /\ productStore # <<>>

\* C7: when the provider has no record of the identifier the resolution
\* fails with no observation, issues no ranked-list and no category-name
\* lookup, and nothing of that identifier enters the accumulator.
C7_NotFoundYieldsNothing ==
    \A n \in LogIndices :
        LET e == resolveLog[n]
        IN  e.resp.kind = "notfound" =>
                /\ e.isNone
                /\ e.results = <<>>
                /\ e.rankLookups = <<>>
                /\ e.nameLookups = <<>>
                /\ \A i \in 1..Len(all_results) : all_results[i].asin # e.asin

\* a run in which one product was unknown to the provider and another one
\* brought observations
C7_Witness ==
    /\ \E n \in LogIndices : resolveLog[n].resp.kind = "notfound"
    /\ all_results # <<>>

\* C8: the notifier never raises, whatever the outcome of the post: the step
\* never kills the run, leaves the stores and the batch alone, and when it
\* returns the run returns the value it returns on a successful delivery.
C8_NotifyNeverRaises ==
    [][pc = "notify" =>
          /\ pc' \in {"done", "blocked"}
          /\ history' = history
          /\ productStore' = productStore
          /\ all_results' = all_results
          /\ pc' = "done" => returned' = ReturnValue(rev, all_results)]_vars

\* a run that ended after a post that failed
C8_Witness ==
    /\ pc = "done"
    /\ notifyLog # <<>>
    /\ slackUrl
    /\ posted = <<>>

\* C9: the batch of a run holds at most one observation per
\* (productIdentifier, categoryId).
C9_OneObservationPerPair ==
    \A i, j \in 1..Len(all_results) :
        (all_results[i].asin = all_results[j].asin
            /\ all_results[i].category_id = all_results[j].category_id) => i = j

\* C10 as stated: the save step always leaves the old history followed by
\* the batch of the run.
C10_SaveAlwaysAppends ==
    [][pc = "save" => history' = history \o StoredRows(all_results)]_vars

\* C10 amended: the history only ever changes in the save step, and then to
\* the old history followed by the rows of the batch; a failed insert leaves
\* it as it was; either way app.py returns the whole batch.
C10_AppendOnly ==
    /\ [][\/ history' = history
          \/ pc = "save" /\ history' = history \o StoredRows(all_results)]_vars
    /\ []((rev = "app" /\ pc = "done") => returned = all_results)

\* a run of app.py over a non-empty history that ended with a batch the
\* store did not take
C10_Witness ==
    /\ rev = "app"
    /\ pc = "done"
    /\ all_results # <<>>
    /\ history \in Histories \ {<<>>}
    /\ returned = all_results

\* C11: every network call has a timeout, so the run always comes to an end:
\* from every state that is not the end of the run a further step is possible.
C11_RunTerminates == pc \in {"done", "crashed"} \/ ENABLED Next

ResolveStep == pc = "loop" /\ pc' \in {"resolved", "blocked"}

\* C12 as stated: a resolution leaves the product store, the history and the
\* error and log buffers as they were.
C12_ResolveIsSideEffectFree ==
    [][ResolveStep => UNCHANGED <<productStore, history, api_errors, log_messages>>]_vars

\* C12 amended: a resolution leaves the product store, the history, the log
\* buffer and the orchestrator's accumulator and counters as they were; of
\* the shared state it writes only _api_errors, to which app.py appends one
\* entry exactly when the product fetch failed.
C12_ResolveWritesOnlyApiErrors ==
    [][ResolveStep =>
          /\ UNCHANGED <<productStore, history, log_messages, all_results,
                         success_count, fail_count, inserts, notifyLog, posted>>
          /\ IF rev = "app" /\ pc' = "resolved"
                /\ resolveLog'[Len(resolveLog')].isNone
             THEN api_errors' =
                     Append(api_errors,
                            [asin |-> resolveLog'[Len(resolveLog')].asin,
                             kind |-> resolveLog'[Len(resolveLog')].resp.kind])
             ELSE api_errors' = api_errors]_vars

\* a failed resolution of app.py has just returned, with its entry in
\* _api_errors
C12_Witness ==
    /\ rev = "app"
    /\ pc = "resolved"
    /\ resolveLog[Len(resolveLog)].isNone
    /\ api_errors # <<>>

OfSource(results, source) == SelectSeq(results, LAMBDA r : r.source = source)

\* the calls of a resolution, by index, whose list holds the product
FoundLookups(e) ==
    SelectSeq([i \in DOMAIN e.bs |-> i],
              LAMBDA i : /\ e.bs[i].kind = "ok"
                         /\ \E k \in 1..Len(e.bs[i].asinList) :
                               e.bs[i].asinList[k] = e.asin)

\* C13: a failed ranked-list lookup costs the observation of that candidate
\* only: the resolution still returns, its bestsellers observations are those
\* of exactly the candidates whose lookup found the product, in candidate
\* order, before and after a failed one, and the salesRank step still adds
\* every positive rank of a category without a bestsellers observation.
C13_LookupFailureIsLocal ==
    \A n \in LogIndices :
        LET e == resolveLog[n]
            best == OfSource(e.results, "bestsellers")
            found == FoundLookups(e)
            sr == e.resp.product.salesRanks
        IN  e.resp.kind = "ok" =>
                /\ ~e.isNone
                /\ Len(e.rankLookups) = Len(e.bs)
                /\ Len(best) = Len(found)
                /\ \A k \in 1..Len(best) :
                       best[k].category_id = e.rankLookups[found[k]]
                /\ \A k \in 1..Len(sr) :
                       (sr[k].rank > 0
                          /\ \A b \in 1..Len(best) : best[b].category_id.v # sr[k].key.v)
                       => \E r \in 1..Len(e.results) :
                              /\ e.results[r].source = "salesRank"
                              /\ e.results[r].category_id.v = sr[k].key.v

\* a resolution whose first lookup failed, that has a bestsellers observation
\* from a later candidate and a salesRank observation
C13_Witness ==
    \E n \in LogIndices :
        LET e == resolveLog[n]
        IN  /\ Len(e.bs) >= 2
            /\ e.bs[1].kind = "error"
            /\ OfSource(e.results, "bestsellers") # <<>>
            /\ OfSource(e.results, "salesRank") # <<>>

CategoriesOf(e) ==
    {e.resp.product.salesRanks[k].key.v : k \in 1..Len(e.resp.product.salesRanks)}
        \cup {e.results[r].category_id.v : r \in 1..Len(e.results)}

\* C14: a resolution holds a salesRank observation of a category exactly when
\* the salesRank map has a positive rank for it and the resolution holds no
\* bestsellers observation of it; every observation has a rank of at least 1.
C14_SalesRankIffUnresolvedAndPositive ==
    \A n \in LogIndices :
        LET e == resolveLog[n]
            sr == e.resp.product.salesRanks
        IN  /\ \A c \in CategoriesOf(e) :
                  (\E r \in 1..Len(e.results) :
                        /\ e.results[r].source = "salesRank"
                        /\ e.results[r].category_id.v = c)
                  <=> /\ \E k \in 1..Len(sr) : sr[k].key.v = c /\ sr[k].rank > 0
                      /\ ~\E r \in 1..Len(e.results) :
                              /\ e.results[r].source = "bestsellers"
                              /\ e.results[r].category_id.v = c
            /\ \A r \in 1..Len(e.results) : e.results[r].rank >= 1

\* a resolution with a salesRank observation of a candidate whose ranked-list
\* lookup ran, and one whose map holds a rank that is not positive
C14_Witness ==
    /\ \E n \in LogIndices :
          LET e == resolveLog[n]
          IN  \E r \in 1..Len(e.results), l \in 1..Len(e.rankLookups) :
                  /\ e.results[r].source = "salesRank"
                  /\ e.results[r].category_id = e.rankLookups[l]
    /\ \E n \in LogIndices :
          LET sr == resolveLog[n].resp.product.salesRanks
          IN  \E k \in 1..Len(sr) : sr[k].rank <= 0

\* C15: the batch is handed to the history store at most once, after the
\* last product, and only when it is not empty; app.py calls the notifier only
\* after that, at most once, with the whole batch and the frame loaded before
\* the append; with an empty batch neither happens.
C15_PersistThenNotifyOnce ==
    /\ Len(inserts) <= 1
    /\ Len(notifyLog) <= 1
    /\ inserts # <<>> =>
          /\ rev = "app"
          /\ idx > Len(products)
          /\ Len(resolveLog) = Len(products)
          /\ all_results # <<>>
          /\ inserts[1] = StoredRows(all_results)
    /\ notifyLog # <<>> =>
          /\ rev = "app" => inserts # <<>>
          /\ idx > Len(products)
          /\ all_results # <<>>
          /\ notifyLog[1].all_results = all_results
          /\ notifyLog[1].df_history = df
          /\ df # <<>> =>
                \/ history = Reverse(df)
                \/ history = Reverse(df) \o StoredRows(all_results)
    /\ (pc = "done" /\ all_results = <<>>) => (inserts = <<>> /\ notifyLog = <<>>)

\* a run of app.py that appended its batch to a non-empty history and then
\* notified
C15_Witness ==
    /\ rev = "app"
    /\ pc = "done"
    /\ inserts # <<>>
    /\ notifyLog # <<>>
    /\ df # <<>>
    /\ history = Reverse(df) \o StoredRows(all_results)

\* C16: at the end of a run the stored title of a product is the title its
\* resolution returned if the resolution succeeded, with any number of
\* observations, and the title it had before (none) if it failed; the
\* identifiers are as they were.
C16_TitleSetIffResolved ==
    (pc = "done" /\ apiKey /\ products # <<>>) =>
        /\ Len(productStore) = Len(products)
        /\ \A n \in 1..Len(productStore) :
              /\ productStore[n].asin = products[n].asin
              /\ productStore[n].title =
                    IF resolveLog[n].isNone THEN "" ELSE resolveLog[n].title

====
